---- MODULE Spec2Model ----
(***************************************************************************)
(* A model of the Factory builder of src/src/factory.ts.                   *)
(*                                                                         *)
(* The program state is the two private fields of one Factory instance,    *)
(* stateCallbacks and instances.  Every public method is one action.  The  *)
(* variable last records what the caller of the most recent call          *)
(* observed (the value returned or the error thrown) together with the     *)
(* fields as they were when the call began; counted remembers the amount   *)
(* of the most recent accepted count() since the last build call.          *)
(*                                                                         *)
(* User code (the blueprint `definition` and the state callbacks) is an    *)
(* input: every invocation of definition() returns a model or throws, and  *)
(* a callback assigns a field, throws, or calls this.count() re-entrantly. *)
(***************************************************************************)
EXTENDS Integers, Sequences, FiniteSets, TLC

VARIABLES stateCallbacks, instances, last, counted

vars == <<stateCallbacks, instances, last, counted>>

(* ------------------------------ bounds -------------------------------- *)

\* largest amount handed to count()
MaxCount == 3

\* largest number of callbacks registered with state() before a build
MaxStates == 2

(* ------------------------------ values -------------------------------- *)

\* The fields of the test model ITestFactory.
Keys == {"example", "state"}

\* A field that is not present on an object reads as undefined.
Absent == "undefined"

\* An object of the model's shape, also used for Partial<Model>: a key that
\* the object does not own maps to Absent.
Obj(e, s) == [example |-> e, state |-> s]

\* Override maps handed to make / makeOne / create / createOne.
Overrides == {Obj(Absent, Absent), Obj("FooBar", Absent), Obj(Absent, "FooBar")}

\* A thrown value: an Error object with a message, or any other value,
\* of which only String(value) is ever read.
ErrorObj(m) == [isError |-> TRUE, message |-> m, str |-> "Error: " \o m]

StringThrown(s) == [isError |-> FALSE, message |-> Absent, str |-> s]

NoError == [isError |-> FALSE, message |-> Absent, str |-> Absent]

\* The outcome of one invocation of definition().
Returns(m) == [threw |-> FALSE, error |-> NoError, model |-> m]

Throws(e) == [threw |-> TRUE, error |-> e, model |-> Obj(Absent, Absent)]

\* Blueprints.  The test factory's definition() returns the same fields on
\* every invocation; a blueprint may also return different values on each
\* invocation (a sequence number, the current time).  n is the number of
\* the invocation.
ConstantDefinition(n) == Returns(Obj("I AM AN EXAMPLE", Absent))

VaryingDefinition(n) == Returns(Obj("example " \o ToString(n), "I AM AN EXAMPLE"))

\* The outcomes of the successive invocations of definition() in one call:
\* a blueprint that returns every time (failAt = 0) or throws on invocation
\* failAt.
DefinitionRuns ==
    {[n \in 1 .. MaxCount |->
        IF n = failAt THEN Throws(ErrorObj("definition failed"))
        ELSE IF varying THEN VaryingDefinition(n) ELSE ConstantDefinition(n)] :
     varying \in BOOLEAN, failAt \in 0 .. MaxCount}

\* State callbacks.
Assign(k, v) == [kind |-> "assign", key |-> k, val |-> v, amount |-> 0]

Raise(s) == [kind |-> "throw", key |-> Absent, val |-> s, amount |-> 0]

Recount(n) == [kind |-> "count", key |-> Absent, val |-> Absent, amount |-> n]

Callbacks ==
    {Assign("state", "This was an example state!"), Assign("state", "FooBar"),
     Raise("state failed"), Recount(2)}

\* Arguments of count().
Amounts == (-1) .. MaxCount

\* What `new` is applied to.
Classes == {"Factory", "TestFactoryClass"}

(* ----------------------------- the object ----------------------------- *)

\* The fields of a Factory instance.
Self(cbs, n) == [stateCallbacks |-> cbs, instances |-> n]

\* Field initialisers.
FreshSelf == Self(<<>>, 1)

\* What a method call hands back to its caller: it returns or throws, and
\* leaves the object in state self.  value is the returned sequence of
\* models (makeOne's single model is a sequence of one; undefined is the
\* empty sequence); built, defLog and applied describe the run of the
\* build loop: the models pushed, the outcomes of the definition()
\* invocations, and the number of callbacks invoked for each model.
Outcome(self, threw, error, value) ==
    [self |-> self, threw |-> threw, error |-> error, value |-> value,
     built |-> <<>>, defLog |-> <<>>, applied |-> <<>>]

(* ------------------------------ methods ------------------------------- *)

\* constructor
ConstructNoGuard(target) == Outcome(FreshSelf, FALSE, NoError, <<>>)

Construct(target) ==
    IF target = "Factory"
    THEN Outcome(FreshSelf, TRUE,
                 ErrorObj("Abstract class cannot be instantiated directly."), <<>>)
    ELSE Outcome(FreshSelf, FALSE, NoError, <<>>)

\* count(amount)
CountOffByOne(self, amount) ==
    IF amount < 0
    THEN Outcome(self, TRUE, ErrorObj("Count must be greater than 0"), <<>>)
    ELSE Outcome([self EXCEPT !.instances = amount], FALSE, NoError, <<>>)

CountAssignsFirst(self, amount) ==
    IF amount < 1
    THEN Outcome([self EXCEPT !.instances = amount], TRUE,
                 ErrorObj("Count must be greater than 0"), <<>>)
    ELSE Outcome([self EXCEPT !.instances = amount], FALSE, NoError, <<>>)

CountAccumulates(self, amount) ==
    IF amount < 1
    THEN Outcome(self, TRUE, ErrorObj("Count must be greater than 0"), <<>>)
    ELSE Outcome([self EXCEPT !.instances = @ + amount], FALSE, NoError, <<>>)

CountOp(self, amount) ==
    IF amount < 1
    THEN Outcome(self, TRUE, ErrorObj("Count must be greater than 0"), <<>>)
    ELSE Outcome([self EXCEPT !.instances = amount], FALSE, NoError, <<>>)

\* state(callback)
StateOp(self, callback) ==
    Outcome([self EXCEPT !.stateCallbacks = Append(@, callback)], FALSE, NoError, <<>>)

\* Object.assign(target, source): the own keys of source overwrite target's.
AssignTargetWins(target, source) ==
    [k \in Keys |-> IF target[k] # Absent THEN target[k] ELSE source[k]]

ObjectAssign(target, source) ==
    [k \in Keys |-> IF source[k] # Absent THEN source[k] ELSE target[k]]

\* One call callback(acc) made by reduce.
InvokeOnSnapshot(callback, acc, self) ==
    CASE callback.kind = "assign" ->
           [threw |-> FALSE, error |-> NoError, self |-> self,
            model |-> ObjectAssign(acc, [k \in Keys |->
                        IF k = callback.key THEN callback.val ELSE Absent])]
      [] callback.kind = "throw" ->
           [threw |-> TRUE, error |-> StringThrown(callback.val), self |-> self,
            model |-> acc]
      [] callback.kind = "count" ->
           LET c == CountOp(self, callback.amount)
           IN  [threw |-> c.threw, error |-> c.error, self |-> self, model |-> acc]

Invoke(callback, acc, self) ==
    CASE callback.kind = "assign" ->
           [threw |-> FALSE, error |-> NoError, self |-> self,
            model |-> ObjectAssign(acc, [k \in Keys |->
                        IF k = callback.key THEN callback.val ELSE Absent])]
      [] callback.kind = "throw" ->
           [threw |-> TRUE, error |-> StringThrown(callback.val), self |-> self,
            model |-> acc]
      [] callback.kind = "count" ->
           LET c == CountOp(self, callback.amount)
           IN  [threw |-> c.threw, error |-> c.error, self |-> c.self, model |-> acc]

\* this.stateCallbacks.reduce((acc, callback) => callback(acc), model), from
\* index j on; calls counts the callbacks invoked.
RECURSIVE ReduceFrom(_, _, _, _)
ReduceFrom(cbs, j, acc, self) ==
    IF j > Len(cbs)
    THEN [threw |-> FALSE, error |-> NoError, self |-> self, model |-> acc,
          calls |-> j - 1]
    ELSE LET r == Invoke(cbs[j], acc, self)
         IN  IF r.threw
             THEN [threw |-> TRUE, error |-> r.error, self |-> r.self,
                   model |-> r.model, calls |-> j]
             ELSE ReduceFrom(cbs, j + 1, r.model, r.self)

ReduceReversed(cbs, model, self) ==
    ReduceFrom([j \in 1 .. Len(cbs) |-> cbs[Len(cbs) + 1 - j]], 1, model, self)

ReduceDropsLast(cbs, model, self) ==
    ReduceFrom(SubSeq(cbs, 1, Len(cbs) - 1), 1, model, self)

ReduceCallbacks(cbs, model, self) == ReduceFrom(cbs, 1, model, self)

\* this.definition(): the next invocation, after those logged in defLog.
InvokeDefinitionCached(defs, defLog) == defs[1]

InvokeDefinition(defs, defLog) == defs[Len(defLog) + 1]

\* The body of the try block up to the end of the for loop, from iteration
\* i on.  defs[n] is the outcome of the n-th invocation of definition().
RECURSIVE MakeLoop(_, _, _, _, _, _, _)
MakeLoop(i, output, self, overrides, defs, defLog, applied) ==
    IF ~(i < self.instances)
    THEN [threw |-> FALSE, error |-> NoError, self |-> self, output |-> output,
          defLog |-> defLog, applied |-> applied]
    ELSE LET d == InvokeDefinition(defs, defLog)
         IN  IF d.threw
             THEN [threw |-> TRUE, error |-> d.error, self |-> self,
                   output |-> output, defLog |-> Append(defLog, d),
                   applied |-> applied]
             ELSE LET model == ObjectAssign(d.model, overrides)
                      r == ReduceCallbacks(self.stateCallbacks, model, self)
                  IN  IF r.threw
                      THEN [threw |-> TRUE, error |-> r.error, self |-> r.self,
                            output |-> output, defLog |-> Append(defLog, d),
                            applied |-> Append(applied, r.calls)]
                      ELSE MakeLoop(i + 1, Append(output, r.model), r.self,
                                    overrides, defs, Append(defLog, d),
                                    Append(applied, r.calls))

\* The end of the try block: reset the transient fields and return output.
MakeReturnKeepsCount(run) ==
    [self |-> Self(<<>>, run.self.instances), threw |-> FALSE, error |-> NoError,
     value |-> run.output, built |-> run.output, defLog |-> run.defLog,
     applied |-> run.applied]

MakeReturn(run) ==
    [self |-> Self(<<>>, 1), threw |-> FALSE, error |-> NoError,
     value |-> run.output, built |-> run.output, defLog |-> run.defLog,
     applied |-> run.applied]

\* The catch block: wrap what was thrown in a new Error.
MakeCatchReturnsPartial(run) ==
    [self |-> run.self, threw |-> TRUE,
     error |-> ErrorObj("Failed to make model: " \o
                  (IF run.error.isError THEN run.error.message ELSE run.error.str)),
     value |-> run.output, built |-> run.output, defLog |-> run.defLog,
     applied |-> run.applied]

MakeCatch(run) ==
    [self |-> run.self, threw |-> TRUE,
     error |-> ErrorObj("Failed to make model: " \o
                  (IF run.error.isError THEN run.error.message ELSE run.error.str)),
     value |-> <<>>, built |-> run.output, defLog |-> run.defLog,
     applied |-> run.applied]

\* make(overrides)
MakeOp(self, overrides, defs) ==
    LET run == MakeLoop(0, <<>>, self, overrides, defs, <<>>, <<>>)
    IN  IF run.threw THEN MakeCatch(run) ELSE MakeReturn(run)

\* array[0]
Final(array) == IF Len(array) = 0 THEN <<>> ELSE <<array[Len(array)]>>

Second(array) == IF Len(array) < 2 THEN <<>> ELSE <<array[2]>>

First(array) == IF Len(array) = 0 THEN <<>> ELSE <<array[1]>>

\* makeOne(overrides)
MakeOneOp(self, overrides, defs) ==
    LET r == MakeOp(self, overrides, defs)
    IN  IF r.threw THEN r ELSE [r EXCEPT !.value = First(r.value)]

\* create(overrides)
CreateResets(self, overrides) ==
    Outcome(FreshSelf, TRUE, ErrorObj("Must implement the DB layer to use Create."), <<>>)

CreateOp(self, overrides) ==
    Outcome(self, TRUE, ErrorObj("Must implement the DB layer to use Create."), <<>>)

\* createOne(overrides)
CreateOneOp(self, overrides) ==
    LET r == CreateOp(self, overrides)
    IN  IF r.threw THEN r ELSE [r EXCEPT !.value = First(r.value)]

(* ------------------------------ actions ------------------------------- *)

This == Self(stateCallbacks, instances)

\* The record of a call: what was called with what, on which fields, and
\* what came back.
Observe(op, amount, overrides, target, r) ==
    [op |-> op, amount |-> amount, overrides |-> overrides, target |-> target,
     preCallbacks |-> stateCallbacks, preInstances |-> instances,
     preCounted |-> counted,
     status |-> IF r.threw THEN "error" ELSE "ok",
     message |-> IF r.threw THEN r.error.message ELSE Absent,
     value |-> r.value, built |-> r.built, defLog |-> r.defLog,
     applied |-> r.applied]

NoOverrides == Obj(Absent, Absent)

Init ==
    /\ stateCallbacks = FreshSelf.stateCallbacks
    /\ instances = FreshSelf.instances
    /\ counted = 0
    /\ last = [op |-> "new", amount |-> 0, overrides |-> NoOverrides,
               target |-> "TestFactoryClass",
               preCallbacks |-> <<>>, preInstances |-> 1, preCounted |-> 0,
               status |-> "ok", message |-> Absent, value |-> <<>>,
               built |-> <<>>, defLog |-> <<>>, applied |-> <<>>]

\* new target(): a failed construction leaves the existing instance in use.
New(target) ==
    \E r \in {Construct(target)} :
        /\ stateCallbacks' = IF r.threw THEN stateCallbacks ELSE r.self.stateCallbacks
        /\ instances' = IF r.threw THEN instances ELSE r.self.instances
        /\ counted' = IF r.threw THEN counted ELSE 0
        /\ last' = Observe("new", 0, NoOverrides, target, r)

Count(amount) ==
    \E r \in {CountOp(This, amount)} :
        /\ stateCallbacks' = r.self.stateCallbacks
        /\ instances' = r.self.instances
        /\ counted' = IF r.threw THEN counted ELSE amount
        /\ last' = Observe("count", amount, NoOverrides, Absent, r)

State(callback) ==
    /\ Len(stateCallbacks) < MaxStates
    /\ \E r \in {StateOp(This, callback)} :
           /\ stateCallbacks' = r.self.stateCallbacks
           /\ instances' = r.self.instances
           /\ last' = Observe("state", 0, NoOverrides, Absent, r)
    /\ UNCHANGED counted

Make(overrides, defs) ==
    \E r \in {MakeOp(This, overrides, defs)} :
        /\ stateCallbacks' = r.self.stateCallbacks
        /\ instances' = r.self.instances
        /\ counted' = 0
        /\ last' = Observe("make", 0, overrides, Absent, r)

MakeOne(overrides, defs) ==
    \E r \in {MakeOneOp(This, overrides, defs)} :
        /\ stateCallbacks' = r.self.stateCallbacks
        /\ instances' = r.self.instances
        /\ counted' = 0
        /\ last' = Observe("makeOne", 0, overrides, Absent, r)

Create(overrides) ==
    \E r \in {CreateOp(This, overrides)} :
        /\ stateCallbacks' = r.self.stateCallbacks
        /\ instances' = r.self.instances
        /\ last' = Observe("create", 0, overrides, Absent, r)
        /\ UNCHANGED counted

CreateOne(overrides) ==
    \E r \in {CreateOneOp(This, overrides)} :
        /\ stateCallbacks' = r.self.stateCallbacks
        /\ instances' = r.self.instances
        /\ last' = Observe("createOne", 0, overrides, Absent, r)
        /\ UNCHANGED counted

Next ==
    \/ \E target \in Classes : New(target)
    \/ \E amount \in Amounts : Count(amount)
    \/ \E callback \in Callbacks : State(callback)
    \/ \E overrides \in Overrides, defs \in DefinitionRuns : Make(overrides, defs)
    \/ \E overrides \in Overrides, defs \in DefinitionRuns : MakeOne(overrides, defs)
    \/ \E overrides \in Overrides : Create(overrides)
    \/ \E overrides \in Overrides : CreateOne(overrides)

Spec == Init /\ [][Next]_vars

(* ------------------------- reading the record ------------------------- *)

IsBuild == last.op \in {"make", "makeOne"}

IsCreate == last.op \in {"create", "createOne"}

Succeeded == last.status = "ok"

Failed == last.status = "error"

Idle == stateCallbacks = <<>> /\ instances = 1

\* No callback pending when the call began calls count() on the builder
\* while the batch is produced.
NoReentrantCount ==
    \A j \in 1 .. Len(last.preCallbacks) : last.preCallbacks[j].kind # "count"

\* What a callback is as a function from Model to Model.
Transform(callback, m) ==
    IF callback.kind = "assign" THEN [m EXCEPT ![callback.key] = callback.val] ELSE m

\* Tk(...T1(m)) for the callbacks <<T1, ..., Tk>>.
RECURSIVE Composed(_, _)
Composed(cbs, m) ==
    IF cbs = <<>> THEN m ELSE Composed(Tail(cbs), Transform(Head(cbs), m))

\* merge(blueprint, overrides): the override wins where it has the key.
Merged(blueprint, overrides) ==
    [k \in Keys |-> IF overrides[k] = Absent THEN blueprint[k] ELSE overrides[k]]

Reversed(cbs) == [j \in 1 .. Len(cbs) |-> cbs[Len(cbs) + 1 - j]]

(* ------------------------------- claims ------------------------------- *)

\* C1: after a make or makeOne call that failed (the blueprint or a state
\* callback threw), the pending callback list is empty and the pending
\* count is 1.
C1_ResetAfterFailedBuild == (IsBuild /\ Failed) => Idle

\* C2: after every successful make or makeOne call, whatever count() and
\* state() calls preceded it, the builder is Idle again: no pending
\* callbacks and a pending count of 1.
C2_IdleAfterSuccessfulBuild == (IsBuild /\ Succeeded) => Idle

C2_Witness ==
    /\ IsBuild /\ Succeeded
    /\ Len(last.preCallbacks) > 0
    /\ last.preInstances > 1

\* C3: a successful make() returns exactly N models when count(N) was the
\* last accepted count() since the last build call, and exactly 1 model
\* when count() was not called since the last build call.
C3_BatchLength ==
    (last.op = "make" /\ Succeeded /\ NoReentrantCount)
        => Len(last.value) = (IF last.preCounted = 0 THEN 1 ELSE last.preCounted)

\* C4: count(amount) with amount < 1 throws 'Count must be greater than 0'
\* and changes neither the pending count nor the pending callback list.
C4_RejectedCountMutatesNothing ==
    (last.op = "count" /\ last.amount < 1)
        => /\ Failed
           /\ last.message = "Count must be greater than 0"
           /\ instances = last.preInstances
           /\ stateCallbacks = last.preCallbacks

C4_Witness ==
    /\ last.op = "count" /\ last.amount < 1
    /\ last.preInstances > 1
    /\ last.preCallbacks # <<>>

\* C5: every model a successful build returns is Tk(...T1(merge(blueprint,
\* overrides))) for the callbacks T1..Tk in the order they were registered;
\* when applying them in the reverse order gives something else, the build
\* does not return that.
C5_CallbacksInRegistrationOrder ==
    (IsBuild /\ Succeeded) =>
        \A i \in 1 .. Len(last.value) :
            LET merged == Merged(last.defLog[i].model, last.overrides)
            IN  /\ last.value[i] = Composed(last.preCallbacks, merged)
                /\ Composed(Reversed(last.preCallbacks), merged)
                        # Composed(last.preCallbacks, merged)
                     => last.value[i] # Composed(Reversed(last.preCallbacks), merged)

C5_Witness ==
    /\ IsBuild /\ Succeeded
    /\ Len(last.preCallbacks) = 2
    /\ last.overrides.state # Absent
    /\ LET merged == Merged(last.defLog[1].model, last.overrides)
       IN  /\ Composed(Reversed(last.preCallbacks), merged)
                # Composed(last.preCallbacks, merged)
           /\ last.value[1] # merged

\* C6: makeOne(O) with no pending callbacks returns a model in which every
\* key of O has O's value and every other key has the blueprint's value.
C6_OverridePrecedence ==
    (last.op = "makeOne" /\ Succeeded /\ last.preCallbacks = <<>>) =>
        \A k \in Keys :
            last.value[1][k] = (IF last.overrides[k] # Absent
                                THEN last.overrides[k]
                                ELSE last.defLog[1].model[k])

C6_Witness ==
    /\ last.op = "makeOne" /\ Succeeded /\ last.preCallbacks = <<>>
    /\ \E k \in Keys : /\ last.overrides[k] # Absent
                       /\ last.defLog[1].model[k] # Absent
                       /\ last.defLog[1].model[k] # last.overrides[k]
    /\ \E k \in Keys : /\ last.overrides[k] = Absent
                       /\ last.defLog[1].model[k] # Absent

\* C7: when the blueprint or a state callback throws during a build, the
\* caller gets an error whose message is 'Failed to make model: ' followed
\* by the message of what was thrown, and gets no model, also when models
\* were already built.
C7_FailureIsWrappedAndReturnsNothing ==
    (IsBuild /\ Failed) =>
        /\ last.value = <<>>
        /\ LET d == last.defLog[Len(last.defLog)]
           IN  IF d.threw
               THEN last.message = "Failed to make model: " \o d.error.message
               ELSE LET thrower == last.preCallbacks[last.applied[Len(last.applied)]]
                    IN  /\ thrower.kind = "throw"
                        /\ last.message = "Failed to make model: " \o thrower.val

C7_Witness ==
    /\ IsBuild /\ Failed
    /\ Len(last.built) > 0
    /\ last.preCallbacks # <<>>
    /\ last.message = "Failed to make model: definition failed"

\* C8: create and createOne always throw the not-implemented error, never
\* invoke the blueprint and leave the pending count and the pending
\* callback list as they were.
C8_CreateLeavesBuilderUntouched ==
    IsCreate =>
        /\ Failed
        /\ last.message = "Must implement the DB layer to use Create."
        /\ last.defLog = <<>>
        /\ instances = last.preInstances
        /\ stateCallbacks = last.preCallbacks

C8_Witness ==
    /\ last.op = "createOne"
    /\ last.preInstances > 1
    /\ last.preCallbacks # <<>>

\* C9: a successful makeOne on a builder whose pending count is N > 1
\* invokes the blueprint N times, builds N models, returns the first of
\* them only, and leaves the pending count at 1.
C9_MakeOneBuildsAllReturnsFirst ==
    (last.op = "makeOne" /\ Succeeded /\ NoReentrantCount /\ last.preInstances > 1) =>
        /\ Len(last.defLog) = last.preInstances
        /\ Len(last.built) = last.preInstances
        /\ last.value = <<last.built[1]>>
        /\ last.value[1] = Composed(last.preCallbacks,
                                    Merged(last.defLog[1].model, last.overrides))
        /\ instances = 1

C9_Witness ==
    /\ last.op = "makeOne" /\ Succeeded /\ NoReentrantCount
    /\ last.preInstances > 1
    /\ last.built[1] # last.built[Len(last.built)]

\* C10: the pending count is at least 1 in every reachable state, so also
\* whenever a build call begins.
C10_PendingCountAtLeastOne ==
    /\ instances >= 1
    /\ IsBuild => last.preInstances >= 1

C10_Witness ==
    /\ IsBuild
    /\ last.preInstances > 1
    /\ last.preCounted = 0

\* C11: `new Factory()` throws 'Abstract class cannot be instantiated
\* directly.' in the constructor, and constructing the concrete subclass
\* succeeds and gives a builder with a pending count of 1 and no pending
\* callbacks.
C11_AbstractGuard ==
    last.op = "new" =>
        IF last.target = "Factory"
        THEN /\ Failed
             /\ last.message = "Abstract class cannot be instantiated directly."
        ELSE Succeeded /\ Idle

C11_Witness ==
    /\ last.op = "new"
    /\ last.target = "Factory"
    /\ Failed
    /\ last.preInstances > 1

\* A makeOne() call without overrides that began on a pristine builder.
PristineMakeOne(call) ==
    /\ call.op = "makeOne"
    /\ call.overrides = NoOverrides
    /\ call.preCallbacks = <<>>
    /\ call.preInstances = 1

\* The call invoked the blueprint once and returned that invocation's output.
ReturnsFreshBlueprint(call) ==
    /\ Len(call.defLog) = 1
    /\ call.defLog[1] \in {ConstantDefinition(1), VaryingDefinition(1)}
    /\ call.value = <<call.defLog[1].model>>

\* C12: when makeOne() is called twice in a row on a pristine builder, the
\* second call begins on a pristine builder as well, and each call that
\* returns invoked the blueprint once itself and returns that output.
C12_TwiceOnPristine ==
    [][(PristineMakeOne(last) /\ last'.op = "makeOne" /\ last'.overrides = NoOverrides)
          => /\ PristineMakeOne(last')
             /\ (last.status = "ok") => ReturnsFreshBlueprint(last)
             /\ (last'.status = "ok") => ReturnsFreshBlueprint(last')]_vars

C12_Witness ==
    /\ PristineMakeOne(last)
    /\ Succeeded
    /\ Idle
    /\ ReturnsFreshBlueprint(last)

\* C13: a successful make with a pending count of N invokes definition()
\* N times, once for each model it returns, and the i-th model returned is
\* built from the output of the i-th invocation.
C13_BlueprintPerInstance ==
    (last.op = "make" /\ Succeeded) =>
        /\ Len(last.defLog) = Len(last.value)
        /\ NoReentrantCount => Len(last.defLog) = last.preInstances
        /\ \A i \in 1 .. Len(last.value) :
              /\ last.defLog[i] \in {ConstantDefinition(i), VaryingDefinition(i)}
              /\ last.value[i] = Composed(last.preCallbacks,
                                          Merged(last.defLog[i].model, last.overrides))

C13_Witness ==
    /\ last.op = "make" /\ Succeeded /\ NoReentrantCount
    /\ last.preInstances = MaxCount
    /\ \A i, j \in 1 .. Len(last.value) : i # j => last.value[i] # last.value[j]

\* The amount of the last pending callback that calls count() on the
\* builder, for a call that began with such a callback pending.
ReentrantAmount ==
    LET J == {j \in 1 .. Len(last.preCallbacks) : last.preCallbacks[j].kind = "count"}
        top == CHOOSE j \in J : \A other \in J : other <= j
    IN  last.preCallbacks[top].amount

\* C14, as claimed: the sequence a successful make returns is as long as
\* the pending count was when the call began, also when count() is invoked
\* on the builder while the batch is produced.
C14_LengthIsCountAtCallStart ==
    (last.op = "make" /\ Succeeded) => Len(last.value) = last.preInstances

\* C14, amended: the loop reads the pending count before every iteration.
\* The sequence a successful make returns is as long as the pending count
\* was when the call began if count() is not invoked during the call; if a
\* state callback calls count(m), it is m models long.
C14_LengthFollowsReentrantCount ==
    (last.op = "make" /\ Succeeded) =>
        Len(last.value) = (IF NoReentrantCount THEN last.preInstances
                           ELSE ReentrantAmount)

C14_Witness ==
    /\ last.op = "make" /\ Succeeded
    /\ ~ NoReentrantCount
    /\ last.preInstances > ReentrantAmount
    /\ Len(last.value) = ReentrantAmount

\* C15: a successful make on a builder with the pending callbacks T1..Tk
\* and a pending count of N returns N models, invokes all k callbacks for
\* every one of them, and every model is Tk(...T1(merge(blueprint_i,
\* overrides))).
C15_EveryCallbackOnEveryMember ==
    (last.op = "make" /\ Succeeded /\ NoReentrantCount) =>
        /\ Len(last.value) = last.preInstances
        /\ Len(last.applied) = last.preInstances
        /\ \A i \in 1 .. last.preInstances :
              /\ last.applied[i] = Len(last.preCallbacks)
              /\ last.value[i] = Composed(last.preCallbacks,
                                          Merged(last.defLog[i].model, last.overrides))

C15_Witness ==
    /\ last.op = "make" /\ Succeeded /\ NoReentrantCount
    /\ last.preInstances = MaxCount
    /\ Len(last.preCallbacks) = MaxStates
    /\ \A i \in 1 .. Len(last.value) :
          last.value[i] # Merged(last.defLog[i].model, last.overrides)

\* C16: an accepted count(b) sets the pending count to b, whatever it was,
\* and leaves the pending callbacks alone; state() appends one callback
\* behind the pending ones and leaves the pending count alone; a successful
\* make returns as many models as the last accepted count() since the last
\* build asked for.
C16_CountAndStateIndependent ==
    /\ (last.op = "count" /\ Succeeded) =>
          /\ instances = last.amount
          /\ stateCallbacks = last.preCallbacks
    /\ last.op = "state" =>
          /\ Succeeded
          /\ instances = last.preInstances
          /\ Len(stateCallbacks) = Len(last.preCallbacks) + 1
          /\ SubSeq(stateCallbacks, 1, Len(last.preCallbacks)) = last.preCallbacks
          /\ stateCallbacks[Len(stateCallbacks)] \in Callbacks
    /\ (last.op = "make" /\ Succeeded /\ NoReentrantCount /\ last.preCounted # 0) =>
          Len(last.value) = last.preCounted

C16_Witness ==
    /\ last.op = "count" /\ Succeeded
    /\ last.preCounted > last.amount
    /\ last.preCallbacks # <<>>
    /\ instances = last.amount

====
